---- MODULE Spec2Model ----
(***************************************************************************)
(* Request execution core of the google_maps client: the get() operation   *)
(* of the Time Zone, Place Autocomplete and Places Nearby Search requests. *)
(*                                                                         *)
(* get() checks that the query string was built, asks the client's         *)
(* RequestRate for admission under Api::All and the endpoint's own Api,    *)
(* and then runs the HTTP attempt inside                                   *)
(*     retry(ExponentialBackoff::default(), || async { ... })              *)
(* whose closure classifies each attempt as Ok, Transient or Permanent.    *)
(*                                                                         *)
(* Time is counted in ticks of 250 ms; durations are truncated to whole    *)
(* ticks.  The request_rate module is not part of the sources at hand; its *)
(* admission rule is modelled from the specification (section 4.1): a      *)
(* rolling window of admission times per Api, tested and updated in one    *)
(* step.  The backoff crate is a dependency; next_backoff and retry follow *)
(* its ExponentialBackoff with the default settings.                       *)
(***************************************************************************)
EXTENDS Integers, Sequences, FiniteSets, TLC

VARIABLES now, client, stamps, calls, reverse_request, passed, conversion

vars == <<now, client, stamps, calls, reverse_request, passed, conversion>>

\* ------------------------------------------------------------------------
\* Bounds of the model

\* number of logical calls issued through the client
NumCalls == 2
\* last tick of the clock in the concurrent specification
MaxTime == 2
\* transient outcomes the transport hands to one call in the concurrent
\* specification are fewer than this
MaxAttempts == 2
\* longest time, in ticks, one transport call stays in flight
MaxRtt == 0

\* number of builder calls made on one reverse-geocoding request
MaxBuilderCalls == 3
\* longest slice passed to with_location_types
MaxSlice == 2

\* ------------------------------------------------------------------------
\* Program constants

None == -1

\* backoff::default::INITIAL_INTERVAL_MILLIS = 500 ms
initial_interval == 2
\* backoff::default::MULTIPLIER = 1.5
multiplier_num == 3
multiplier_den == 2
\* backoff::default::RANDOMIZATION_FACTOR = 0.5
randomization_num == 1
randomization_den == 2
\* backoff::default::MAX_INTERVAL_MILLIS = 60 000 ms
max_interval == 240
\* backoff::default::MAX_ELAPSED_TIME_MILLIS = 900 000 ms
max_elapsed_time == 3600

\* ------------------------------------------------------------------------
\* Api categories and endpoints

Api == {"All", "Places", "TimeZone"}

Endpoints == {"TimeZone", "PlaceAutocomplete", "NearbySearch"}

\* the Api each get() names next to Api::All
ApiOf(e) == IF e = "TimeZone" THEN "TimeZone" ELSE "Places"

LimitApisOnlyAll(e) == {"All"}

LimitApisOnlyOwn(e) == {ApiOf(e)}

\* the argument of limit_apis: vec![&Api::All, &Api::<endpoint>]
LimitApis(e) == {"All", ApiOf(e)}

\* ------------------------------------------------------------------------
\* Transport results and their classification (the retry closure)

\* what one HTTP attempt can come back with:
\*   resp   - whether reqwest got a response at all
\*   code   - the HTTP status code
\*   text   - whether response.text() could be read
\*   json   - whether serde_json parsed the body
\*   status - the status field of the parsed body
NoResponse == [resp |-> FALSE, code |-> 0, text |-> FALSE, json |-> FALSE, status |-> "-"]

HttpOnly(c) == [resp |-> TRUE, code |-> c, text |-> FALSE, json |-> FALSE, status |-> "-"]

TextError == [resp |-> TRUE, code |-> 200, text |-> FALSE, json |-> FALSE, status |-> "-"]

JsonError == [resp |-> TRUE, code |-> 200, text |-> TRUE, json |-> FALSE, status |-> "-"]

Parsed(s) == [resp |-> TRUE, code |-> 200, text |-> TRUE, json |-> TRUE, status |-> s]

NonSuccessCodes == {404, 429, 500}

Statuses == {"Ok", "UnknownError", "InvalidRequest"}

TransportResults ==
    {NoResponse, TextError, JsonError}
        \cup {HttpOnly(c) : c \in NonSuccessCodes}
        \cup {Parsed(s) : s \in Statuses}

NoResult == [resp |-> FALSE, code |-> -1, text |-> FALSE, json |-> FALSE, status |-> "-"]

\* StatusCode::is_success
is_success(code) == code >= 200 /\ code <= 299

\* StatusCode::is_server_error
is_server_error(code) == code >= 500 /\ code <= 599

ClassifyRetryClientErrors(r) ==
    IF ~r.resp THEN "Transient"
    ELSE IF is_success(r.code) THEN
        IF ~r.text THEN "Permanent"
        ELSE IF ~r.json THEN "Permanent"
        ELSE IF r.status = "Ok" THEN "Ok"
        ELSE IF r.status = "UnknownError" THEN "Transient"
        ELSE "Permanent"
    ELSE "Transient"

ClassifyRetryOk(r) ==
    IF ~r.resp THEN "Transient"
    ELSE IF is_success(r.code) THEN
        IF ~r.text THEN "Permanent"
        ELSE IF ~r.json THEN "Permanent"
        ELSE IF r.status = "Ok" THEN "Transient"
        ELSE IF r.status = "UnknownError" THEN "Transient"
        ELSE "Permanent"
    ELSE IF is_server_error(r.code) \/ r.code = 429 THEN "Transient"
    ELSE "Permanent"

ClassifyOkWithoutStatus(r) ==
    IF ~r.resp THEN "Transient"
    ELSE IF is_success(r.code) THEN
        IF ~r.text THEN "Permanent"
        ELSE IF ~r.json THEN "Permanent"
        ELSE IF r.status = "UnknownError" THEN "Transient"
        ELSE "Ok"
    ELSE IF is_server_error(r.code) \/ r.code = 429 THEN "Transient"
    ELSE "Permanent"

ClassifyReadFailureTransient(r) ==
    IF ~r.resp THEN "Transient"
    ELSE IF is_success(r.code) THEN
        IF ~r.text THEN "Transient"
        ELSE IF ~r.json THEN "Permanent"
        ELSE IF r.status = "Ok" THEN "Ok"
        ELSE IF r.status = "UnknownError" THEN "Transient"
        ELSE "Permanent"
    ELSE IF is_server_error(r.code) \/ r.code = 429 THEN "Transient"
    ELSE "Permanent"

ClassifyRetryOtherStatus(r) ==
    IF ~r.resp THEN "Transient"
    ELSE IF is_success(r.code) THEN
        IF ~r.text THEN "Permanent"
        ELSE IF ~r.json THEN "Permanent"
        ELSE IF r.status = "Ok" THEN "Ok"
        ELSE "Transient"
    ELSE IF is_server_error(r.code) \/ r.code = 429 THEN "Transient"
    ELSE "Permanent"

ClassifyRetryParseFailure(r) ==
    IF ~r.resp THEN "Transient"
    ELSE IF is_success(r.code) THEN
        IF ~r.text THEN "Permanent"
        ELSE IF ~r.json THEN "Transient"
        ELSE IF r.status = "Ok" THEN "Ok"
        ELSE IF r.status = "UnknownError" THEN "Transient"
        ELSE "Permanent"
    ELSE IF is_server_error(r.code) \/ r.code = 429 THEN "Transient"
    ELSE "Permanent"

ClassifyNoResponsePermanent(r) ==
    IF ~r.resp THEN "Permanent"
    ELSE IF is_success(r.code) THEN
        IF ~r.text THEN "Permanent"
        ELSE IF ~r.json THEN "Permanent"
        ELSE IF r.status = "Ok" THEN "Ok"
        ELSE IF r.status = "UnknownError" THEN "Transient"
        ELSE "Permanent"
    ELSE IF is_server_error(r.code) \/ r.code = 429 THEN "Transient"
    ELSE "Permanent"

\* the closure's wrapping of the attempt: Ok(..), Err(Transient{..}) or
\* Err(Permanent(..))
Classify(r) ==
    IF ~r.resp THEN "Transient"
    ELSE IF is_success(r.code) THEN
        IF ~r.text THEN "Permanent"
        ELSE IF ~r.json THEN "Permanent"
        ELSE IF r.status = "Ok" THEN "Ok"
        ELSE IF r.status = "UnknownError" THEN "Transient"
        ELSE "Permanent"
    ELSE IF is_server_error(r.code) \/ r.code = 429 THEN "Transient"
    ELSE "Permanent"

\* the error variant the closure builds for a failed attempt
ErrorOf(r) ==
    IF ~r.resp THEN "Reqwest"
    ELSE IF is_success(r.code) THEN
        IF ~r.text THEN "ReqwestMessage"
        ELSE IF ~r.json THEN "SerdeJson"
        ELSE "GoogleMapsService"
    ELSE "HttpUnsuccessful"

\* the transport results the closure classifies as transient
TransientResults == {r \in TransportResults : Classify(r) = "Transient"}

\* ------------------------------------------------------------------------
\* ExponentialBackoff::default() as driven by backoff::future::retry

\* the draws of rand::random::<f64>() in [0, 1) the model follows: the
\* low end (0.0) and the high end (just under 1.0)
Randoms == {"low", "high"}

\* ExponentialBackoff::get_random_value_from_interval
get_random_value_from_interval(random, current_interval) ==
    LET delta == (randomization_num * current_interval) \div randomization_den
        min_interval == current_interval - delta
        max_interval_ == current_interval + delta
    IN  IF random = "low" THEN min_interval ELSE max_interval_

increment_current_interval_uncapped(current_interval) ==
    (current_interval * multiplier_num) \div multiplier_den

\* ExponentialBackoff::increment_current_interval
increment_current_interval(current_interval) ==
    IF current_interval * multiplier_num >= max_interval * multiplier_den
    THEN max_interval
    ELSE (current_interval * multiplier_num) \div multiplier_den

next_backoff_checks_elapsed_only(current_interval, elapsed_time, random) ==
    IF elapsed_time > max_elapsed_time
    THEN [delay |-> None, interval |-> current_interval]
    ELSE [delay |-> get_random_value_from_interval(random, current_interval),
          interval |-> increment_current_interval(current_interval)]

next_backoff_unbounded(current_interval, elapsed_time, random) ==
    [delay |-> get_random_value_from_interval(random, current_interval),
     interval |-> increment_current_interval(current_interval)]

\* ExponentialBackoff::next_backoff: the delay to sleep (None: give up)
\* and the interval the next call starts from
next_backoff(current_interval, elapsed_time, random) ==
    IF elapsed_time > max_elapsed_time
    THEN [delay |-> None, interval |-> current_interval]
    ELSE LET randomized_interval ==
                 get_random_value_from_interval(random, current_interval)
         IN  [delay |-> IF elapsed_time + randomized_interval <= max_elapsed_time
                        THEN randomized_interval
                        ELSE None,
              interval |-> increment_current_interval(current_interval)]

\* ------------------------------------------------------------------------
\* RequestRate: budgets per Api and the admission rule

Budget(n, t) == [max_calls |-> n, per_interval |-> t]

RateMap(all, pl, tz) ==
    [a \in Api |-> IF a = "All" THEN all ELSE IF a = "Places" THEN pl ELSE tz]

\* the rate settings the runs are configured with: no limit at all (no
\* rate, a zero count, a zero interval), one call per 2 ticks for every
\* Api, for the endpoints' own Apis only, and for Api::All only
RateMaps ==
    {RateMap(Budget(0, 0), Budget(0, 2), Budget(1, 0)),
     RateMap(Budget(1, 2), Budget(1, 2), Budget(1, 2)),
     RateMap(Budget(0, 0), Budget(1, 2), Budget(1, 2)),
     RateMap(Budget(1, 2), Budget(0, 2), Budget(1, 0))}

\* the retry setting the client documentation shows (with_max_retries);
\* GoogleMapsClient has no field for it and get() never reads it: it is
\* kept in the client record only so that properties can refer to it
MaxRetriesSettings == {0, 1}

UnlimitedNever(b) == FALSE

\* a budget with no calls or no interval does not throttle
Unlimited(b) == b.max_calls = 0 \/ b.per_interval = 0

InWindowNoExpiry(a, t) == stamps[a]

\* the admissions of category a that still count at time t
InWindow(a, t) ==
    SelectSeq(stamps[a], LAMBDA s : s > t - client.rate_map[a].per_interval)

\* category a has a free slot at time t
HasSlot(a, t) ==
    \/ Unlimited(client.rate_map[a])
    \/ Len(InWindow(a, t)) < client.rate_map[a].max_calls

\* limit_apis(apis) can return at time t
CanAdmit(apis, t) == \A a \in apis : HasSlot(a, t)

\* the bookkeeping after an admission under apis at time t
Charge(apis, t) ==
    [a \in Api |->
        IF a \in apis /\ ~Unlimited(client.rate_map[a])
        THEN Append(InWindow(a, t), t)
        ELSE stamps[a]]

\* ------------------------------------------------------------------------
\* One logical call

NewCallSharedBackoff(e, q) ==
    [endpoint |-> e, query |-> q, pc |-> "idle",
     reqAt |-> None, admitAt |-> None,
     charges |-> [a \in Api |-> 0],
     attempts |-> IF calls = <<>> THEN 0 ELSE calls[Len(calls)].attempts,
     sentAt |-> None,
     lastResp |-> NoResult,
     current_interval |->
         IF calls = <<>> THEN initial_interval
         ELSE calls[Len(calls)].current_interval,
     start_time |-> None,
     wakeAt |-> None, lastDelay |-> None,
     result |-> [kind |-> "none", attempt |-> 0, err |-> "-"]]

NewCall(e, q) ==
    [endpoint |-> e, query |-> q, pc |-> "idle",
     reqAt |-> None, admitAt |-> None,
     charges |-> [a \in Api |-> 0],
     attempts |-> 0, sentAt |-> None,
     lastResp |-> NoResult,
     current_interval |-> initial_interval, start_time |-> None,
     wakeAt |-> None, lastDelay |-> None,
     result |-> [kind |-> "none", attempt |-> 0, err |-> "-"]]

Issued == 1..Len(calls)

Pending(i) == calls[i].pc \in {"waiting", "attempt", "inflight", "backoff"}

GetEntryIgnoresQuery(q) == "waiting"

GetEntrySkipLimit(q) == IF q THEN "attempt" ELSE "done"

\* get(), lines 28-40: without a query string it returns QueryNotBuilt,
\* otherwise it goes on to limit_apis
GetEntry(q) == IF q THEN "waiting" ELSE "done"

AfterSleepRelimit == "waiting"

\* where the retry loop resumes after its sleep: the operation closure
AfterSleep == "attempt"

\* get() is called on a request; limit: how many calls the run issues
Get(limit, endpoints) ==
    /\ Len(calls) < limit
    /\ \E e \in endpoints, q \in BOOLEAN :
          LET c == NewCall(e, q)
              entry == GetEntry(q)
          IN  calls' = Append(calls,
                  [c EXCEPT !.pc = entry,
                            !.reqAt = IF q THEN now ELSE None,
                            !.result = IF q THEN c.result
                                       ELSE [kind |-> "err", attempt |-> 0,
                                             err |-> "QueryNotBuilt"]])
    /\ UNCHANGED <<now, client, stamps, reverse_request, passed, conversion>>

AdmitChangesBudget(i) ==
    /\ calls[i].pc = "waiting"
    /\ LET apis == LimitApis(calls[i].endpoint)
       IN  /\ CanAdmit(apis, now)
           /\ stamps' = Charge(apis, now)
           /\ client' = [client EXCEPT !.rate_map = [a \in Api |->
                  IF a \in apis /\ ~Unlimited(client.rate_map[a])
                  THEN Budget(client.rate_map[a].max_calls + 1,
                              client.rate_map[a].per_interval)
                  ELSE client.rate_map[a]]]
           /\ calls' = [calls EXCEPT ![i] =
                  [@ EXCEPT !.pc = "attempt",
                            !.admitAt = IF @ = None THEN now ELSE @,
                            !.charges = [a \in Api |->
                                IF a \in apis THEN calls[i].charges[a] + 1
                                ELSE calls[i].charges[a]],
                            !.start_time =
                                IF calls[i].attempts = 0 THEN now ELSE @]]
    /\ UNCHANGED <<now, reverse_request, passed, conversion>>

AdmitBlocking(i) ==
    /\ calls[i].pc = "waiting"
    /\ \A j \in Issued \ {i} : ~Pending(j)
    /\ LET apis == LimitApis(calls[i].endpoint)
       IN  /\ CanAdmit(apis, now)
           /\ stamps' = Charge(apis, now)
           /\ calls' = [calls EXCEPT ![i] =
                  [@ EXCEPT !.pc = "attempt",
                            !.admitAt = IF @ = None THEN now ELSE @,
                            !.charges = [a \in Api |->
                                IF a \in apis THEN calls[i].charges[a] + 1
                                ELSE calls[i].charges[a]],
                            !.start_time =
                                IF calls[i].attempts = 0 THEN now ELSE @]]
    /\ UNCHANGED <<now, client, reverse_request, passed, conversion>>

AdmitRacing(i) ==
    /\ calls[i].pc = "waiting"
    /\ CanAdmit(LimitApis(calls[i].endpoint), now)
    /\ LET together == {j \in Issued : /\ calls[j].pc = "waiting"
                                       /\ CanAdmit(LimitApis(calls[j].endpoint), now)}
           takers(a) == {j \in together : a \in LimitApis(calls[j].endpoint)}
       IN  /\ stamps' = [a \in Api |->
                  IF Unlimited(client.rate_map[a]) THEN stamps[a]
                  ELSE InWindow(a, now)
                           \o [k \in 1..Cardinality(takers(a)) |-> now]]
           /\ calls' = [j \in DOMAIN calls |->
                  IF j \in together
                  THEN [calls[j] EXCEPT
                            !.pc = "attempt",
                            !.admitAt = IF @ = None THEN now ELSE @,
                            !.charges = [a \in Api |->
                                IF a \in LimitApis(calls[j].endpoint)
                                THEN calls[j].charges[a] + 1
                                ELSE calls[j].charges[a]],
                            !.start_time = IF calls[j].attempts = 0 THEN now ELSE @]
                  ELSE calls[j]]
    /\ UNCHANGED <<now, client, reverse_request, passed, conversion>>

\* limit_apis(vec![&Api::All, &Api::X]).await returns: both categories
\* have a free slot and are charged in one step; retry() then resets the
\* backoff (current_interval, start_time)
Admit(i) ==
    /\ calls[i].pc = "waiting"
    /\ LET apis == LimitApis(calls[i].endpoint)
       IN  /\ CanAdmit(apis, now)
           /\ stamps' = Charge(apis, now)
           /\ calls' = [calls EXCEPT ![i] =
                  [@ EXCEPT !.pc = "attempt",
                            !.admitAt = IF @ = None THEN now ELSE @,
                            !.charges = [a \in Api |->
                                IF a \in apis THEN calls[i].charges[a] + 1
                                ELSE calls[i].charges[a]],
                            !.current_interval =
                                IF calls[i].attempts = 0 THEN initial_interval ELSE @,
                            !.start_time =
                                IF calls[i].attempts = 0 THEN now ELSE @]]
    /\ UNCHANGED <<now, client, reverse_request, passed, conversion>>

\* the closure issues the HTTP GET
Send(i) ==
    /\ calls[i].pc = "attempt"
    /\ calls' = [calls EXCEPT ![i] =
           [@ EXCEPT !.pc = "inflight",
                     !.attempts = @ + 1,
                     !.sentAt = now]]
    /\ UNCHANGED <<now, client, stamps, reverse_request, passed, conversion>>

GivesUpOnlyWhenExhausted(class, delay) == delay = None

\* retry(): an Err(Permanent(..)) ends the loop, and so does an
\* Err(Transient{..}) once next_backoff has no delay left
GivesUp(class, delay) == class = "Permanent" \/ delay = None

FinalErrorKindLost(c, r) ==
    [kind |-> "err", attempt |-> c.attempts, err |-> "Reqwest"]

FinalErrorOfEarlierAttempt(c, r) ==
    IF c.lastResp = NoResult
    THEN [kind |-> "err", attempt |-> c.attempts, err |-> ErrorOf(r)]
    ELSE [kind |-> "err", attempt |-> c.attempts - 1, err |-> ErrorOf(c.lastResp)]

\* retry() returns Err(err) with the error of the attempt that has just
\* failed with r; get() hands it on with `?`
FinalError(c, r) ==
    [kind |-> "err", attempt |-> c.attempts, err |-> ErrorOf(r)]

\* the state of call c after its attempt came back with r and the closure
\* classified it; random is the draw next_backoff makes
Settle(c, r, random, t) ==
    LET class == Classify(r)
        nb == next_backoff(c.current_interval, t - c.start_time, random)
        seen == [c EXCEPT !.lastResp = r, !.sentAt = None]
    IN  IF class = "Ok"
        THEN [seen EXCEPT !.pc = "done",
                          !.result = [kind |-> "ok", attempt |-> c.attempts,
                                      err |-> "-"]]
        ELSE IF GivesUp(class, nb.delay)
        THEN [seen EXCEPT !.pc = "done",
                          !.current_interval =
                              IF class = "Permanent" THEN @ ELSE nb.interval,
                          !.result = FinalError(c, r)]
        ELSE [seen EXCEPT !.pc = "backoff",
                          !.current_interval = nb.interval,
                          !.wakeAt = t + nb.delay,
                          !.lastDelay = nb.delay]

\* the attempt of call i comes back; maxAttempts bounds the transient
\* outcomes the transport produces for one call
Receive(i, maxAttempts, results) ==
    /\ calls[i].pc = "inflight"
    /\ \E r \in results, random \in Randoms :
          /\ Classify(r) = "Transient" => calls[i].attempts < maxAttempts
          /\ Classify(r) # "Transient" => random = "low"
          /\ calls' = [calls EXCEPT ![i] = Settle(calls[i], r, random, now)]
    /\ UNCHANGED <<now, client, stamps, reverse_request, passed, conversion>>

WakeEarly(i) ==
    /\ calls[i].pc = "backoff"
    /\ calls' = [calls EXCEPT ![i] = [@ EXCEPT !.pc = AfterSleep, !.wakeAt = None]]
    /\ UNCHANGED <<now, client, stamps, reverse_request, passed, conversion>>

\* the sleep of the retry loop is over
Wake(i) ==
    /\ calls[i].pc = "backoff"
    /\ calls[i].wakeAt <= now
    /\ calls' = [calls EXCEPT ![i] = [@ EXCEPT !.pc = AfterSleep, !.wakeAt = None]]
    /\ UNCHANGED <<now, client, stamps, reverse_request, passed, conversion>>

DroppedWithCancelled(c) ==
    [c EXCEPT !.pc = "dropped", !.sentAt = None, !.wakeAt = None,
              !.result = [kind |-> "err", attempt |-> c.attempts,
                          err |-> "Cancelled"]]

\* the record of call c once its future has been dropped: the future is
\* gone with its timer and its connection, and nothing was returned
Dropped(c) ==
    [c EXCEPT !.pc = "dropped", !.sentAt = None, !.wakeAt = None]

\* the caller drops the future of get() while it is suspended at one of
\* its await points: limit_apis, the HTTP exchange or the backoff sleep
Drop(i) ==
    /\ calls[i].pc \in {"waiting", "inflight", "backoff"}
    /\ calls' = [calls EXCEPT ![i] = Dropped(calls[i])]
    /\ UNCHANGED <<now, client, stamps, reverse_request, passed, conversion>>

\* ------------------------------------------------------------------------
\* The three get() operations side by side

\* the closure of TimeZoneRequest::get
ClassifyTimeZone(r) ==
    IF ~r.resp THEN "Transient"
    ELSE IF is_success(r.code) THEN
        IF ~r.text THEN "Permanent"
        ELSE IF ~r.json THEN "Permanent"
        ELSE IF r.status = "Ok" THEN "Ok"
        ELSE IF r.status = "UnknownError" THEN "Transient"
        ELSE "Permanent"
    ELSE IF is_server_error(r.code) \/ r.code = 429 THEN "Transient"
    ELSE "Permanent"

\* the closure of PlaceAutocompleteRequest::get
ClassifyPlaceAutocomplete(r) ==
    IF ~r.resp THEN "Transient"
    ELSE IF is_success(r.code) THEN
        IF ~r.text THEN "Permanent"
        ELSE IF ~r.json THEN "Permanent"
        ELSE IF r.status = "Ok" THEN "Ok"
        ELSE IF r.status = "UnknownError" THEN "Transient"
        ELSE "Permanent"
    ELSE IF is_server_error(r.code) \/ r.code = 429 THEN "Transient"
    ELSE "Permanent"

ClassifyNearbySearchGivesUpOn429(r) ==
    IF ~r.resp THEN "Transient"
    ELSE IF is_success(r.code) THEN
        IF ~r.text THEN "Permanent"
        ELSE IF ~r.json THEN "Permanent"
        ELSE IF r.status = "Ok" THEN "Ok"
        ELSE IF r.status = "UnknownError" THEN "Transient"
        ELSE "Permanent"
    ELSE IF is_server_error(r.code) THEN "Transient"
    ELSE "Permanent"

\* the closure of the Nearby Search get()
ClassifyNearbySearch(r) ==
    IF ~r.resp THEN "Transient"
    ELSE IF is_success(r.code) THEN
        IF ~r.text THEN "Permanent"
        ELSE IF ~r.json THEN "Permanent"
        ELSE IF r.status = "Ok" THEN "Ok"
        ELSE IF r.status = "UnknownError" THEN "Transient"
        ELSE "Permanent"
    ELSE IF is_server_error(r.code) \/ r.code = 429 THEN "Transient"
    ELSE "Permanent"

\* the closure of the get() of endpoint e
ClassifyOf(e, r) ==
    IF e = "TimeZone" THEN ClassifyTimeZone(r)
    ELSE IF e = "PlaceAutocomplete" THEN ClassifyPlaceAutocomplete(r)
    ELSE ClassifyNearbySearch(r)

\* the state of call c after its attempt came back with r, as classified
\* by the closure of the call's own endpoint
SettleOf(c, r, random, t) ==
    LET class == ClassifyOf(c.endpoint, r)
        nb == next_backoff(c.current_interval, t - c.start_time, random)
        seen == [c EXCEPT !.lastResp = r, !.sentAt = None]
    IN  IF class = "Ok"
        THEN [seen EXCEPT !.pc = "done",
                          !.result = [kind |-> "ok", attempt |-> c.attempts,
                                      err |-> "-"]]
        ELSE IF GivesUp(class, nb.delay)
        THEN [seen EXCEPT !.pc = "done",
                          !.current_interval =
                              IF class = "Permanent" THEN @ ELSE nb.interval,
                          !.result = FinalError(c, r)]
        ELSE [seen EXCEPT !.pc = "backoff",
                          !.current_interval = nb.interval,
                          !.wakeAt = t + nb.delay,
                          !.lastDelay = nb.delay]

\* the endpoints in the order the comparison issues their calls
EndpointOrder == <<"TimeZone", "PlaceAutocomplete", "NearbySearch">>

\* get() is called on a request of the next endpoint
GetNext ==
    /\ Len(calls) < Len(EndpointOrder)
    /\ Get(Len(EndpointOrder), {EndpointOrder[Len(calls) + 1]})

\* the attempts in flight of all the calls come back with the same
\* transport result and the same draw of the backoff
ReceiveSame(maxAttempts, results) ==
    /\ Len(calls) = Len(EndpointOrder)
    /\ \A i \in Issued : calls[i].pc \in {"inflight", "done"}
    /\ \E i \in Issued : calls[i].pc = "inflight"
    /\ \E r \in results, random \in Randoms :
          /\ \A i \in Issued :
                 (calls[i].pc = "inflight" /\ r \in TransientResults) =>
                     calls[i].attempts < maxAttempts
          /\ calls' = [i \in DOMAIN calls |->
                 IF calls[i].pc = "inflight"
                 THEN SettleOf(calls[i], r, random, now)
                 ELSE calls[i]]
    /\ UNCHANGED <<now, client, stamps, reverse_request, passed, conversion>>

\* ------------------------------------------------------------------------
\* The clock

RECURSIVE MinOf(_)
MinOf(S) ==
    LET x == CHOOSE y \in S : TRUE
    IN  IF S = {x} THEN x
        ELSE LET m == MinOf(S \ {x}) IN IF x < m THEN x ELSE m

\* something can happen now; time does not pass before it did
Urgent(i, rtt) ==
    \/ calls[i].pc = "attempt"
    \/ calls[i].pc = "backoff" /\ calls[i].wakeAt <= now
    \/ calls[i].pc = "waiting" /\ CanAdmit(LimitApis(calls[i].endpoint), now)
    \/ calls[i].pc = "inflight" /\ now - calls[i].sentAt >= rtt

\* time passes: by one tick while a call may arrive, waits for admission
\* or is in flight (for at most rtt ticks), and to the next wake-up when
\* all calls sleep
Tick(limit, horizon, rtt) ==
    /\ now < horizon
    /\ Len(calls) > 0
    /\ \/ Len(calls) < limit
       \/ \E i \in Issued : Pending(i)
    /\ \A i \in Issued : ~Urgent(i, rtt)
    /\ now' =
          IF \/ Len(calls) < limit
             \/ \E i \in Issued : calls[i].pc \in {"waiting", "inflight"}
          THEN now + 1
          ELSE MinOf({calls[i].wakeAt : i \in {j \in Issued : calls[j].pc = "backoff"}})
    /\ UNCHANGED <<client, stamps, calls, reverse_request, passed, conversion>>

\* ------------------------------------------------------------------------
\* ReverseRequest: the location_types filter and its two builders

\* the LocationType values named in the builders' documentation
LocationType == {"RoofTop", "RangeInterpolated", "GeometricCenter", "Approximate"}

\* Option<Vec<LocationType>>
OptionNone == [some |-> FALSE, vec |-> <<>>]

Some(v) == [some |-> TRUE, vec |-> v]

\* a reverse-geocoding request on which no filter was set
NewReverseRequest == [location_types |-> OptionNone]

\* ReverseRequest::with_location_type
with_location_type(req, location_type_element) ==
    IF ~req.location_types.some
    THEN [req EXCEPT !.location_types = Some(<<location_type_element>>)]
    ELSE [req EXCEPT !.location_types =
              Some(Append(req.location_types.vec, location_type_element))]

with_location_types_replaces(req, location_type_slice) ==
    [req EXCEPT !.location_types = Some(location_type_slice)]

\* ReverseRequest::with_location_types
with_location_types(req, location_type_slice) ==
    IF ~req.location_types.some
    THEN [req EXCEPT !.location_types = Some(location_type_slice)]
    ELSE [req EXCEPT !.location_types =
              Some(req.location_types.vec \o location_type_slice)]

\* the slices of at most n elements of S
SlicesUpTo(S, n) == UNION {[1..k -> S] : k \in 0..n}

\* .with_location_type(e) is called on the request; passed keeps what the
\* builders were called with, one entry per call
WithLocationType(limit, types) ==
    /\ Len(passed) < limit
    /\ \E e \in types :
          /\ reverse_request' = with_location_type(reverse_request, e)
          /\ passed' = Append(passed, <<e>>)
    /\ UNCHANGED <<now, client, stamps, calls, conversion>>

\* .with_location_types(slice) is called on the request
WithLocationTypes(limit, types, maxLen) ==
    /\ Len(passed) < limit
    /\ \E slice \in SlicesUpTo(types, maxLen) :
          /\ reverse_request' = with_location_types(reverse_request, slice)
          /\ passed' = Append(passed, slice)
    /\ UNCHANGED <<now, client, stamps, calls, conversion>>

\* ------------------------------------------------------------------------
\* geo Coord and Point into directions Location and Waypoint

\* f64 values: finite ones by their value in whole degrees and the digits
\* they carry beyond the precision of a Decimal, NaN, the infinities, and
\* finite ones beyond what a Decimal holds
F64(v, excess) == [class |-> "finite", v |-> v, excess |-> excess]

NaN == [class |-> "nan", v |-> 0, excess |-> 0]

Infinity == [class |-> "inf", v |-> 0, excess |-> 0]

BeyondDecimal == [class |-> "huge", v |-> 0, excess |-> 0]

\* geo_types::Coord { x, y } and Point(Coord)
Coord(x, y) == [x |-> x, y |-> y]

Point(x, y) == [coord |-> Coord(x, y)]

\* Decimal::from_f64: None for a value that is not finite or does not fit,
\* else the Decimal of the value, the digits beyond its precision lost
from_f64(f) ==
    IF f.class = "finite" THEN [some |-> TRUE, dec |-> f.v]
    ELSE [some |-> FALSE, dec |-> 0]

\* an Err(error) of a conversion into target: no value comes with it
Failed(target, error) ==
    [ok |-> FALSE, target |-> target, variant |-> "-", lat |-> 0, lng |-> 0,
     err |-> error]

\* LatLng::try_from_dec: the latitude within -90..90 and the longitude
\* within -180..180
try_from_dec(lat, lng) ==
    IF lat < -90 \/ lat > 90 THEN [ok |-> FALSE, err |-> "InvalidLatitude"]
    ELSE IF lng < -180 \/ lng > 180
         THEN [ok |-> FALSE, err |-> "InvalidLongitude"]
         ELSE [ok |-> TRUE, lat |-> lat, lng |-> lng]

\* impl TryFrom<&Coord> for Location
LocationTryFromCoord(coordinate) ==
    LET lat == from_f64(coordinate.y)
        lng == from_f64(coordinate.x)
    IN  IF ~lat.some THEN Failed("Location", "FloatToDecimalConversionError")
        ELSE IF ~lng.some
             THEN Failed("Location", "FloatToDecimalConversionError")
             ELSE LET lat_lng == try_from_dec(lat.dec, lng.dec)
                  IN  IF ~lat_lng.ok THEN Failed("Location", lat_lng.err)
                      ELSE [ok |-> TRUE, target |-> "Location",
                            variant |-> "LatLng", lat |-> lat_lng.lat,
                            lng |-> lat_lng.lng, err |-> "-"]

\* impl TryFrom<&Point> for Location
LocationTryFromPoint(point) ==
    LET lat == from_f64(point.coord.y)
        lng == from_f64(point.coord.x)
    IN  IF ~lat.some THEN Failed("Location", "FloatToDecimalConversionError")
        ELSE IF ~lng.some
             THEN Failed("Location", "FloatToDecimalConversionError")
             ELSE LET lat_lng == try_from_dec(lat.dec, lng.dec)
                  IN  IF ~lat_lng.ok THEN Failed("Location", lat_lng.err)
                      ELSE [ok |-> TRUE, target |-> "Location",
                            variant |-> "LatLng", lat |-> lat_lng.lat,
                            lng |-> lat_lng.lng, err |-> "-"]

WaypointTryFromCoordSwapped(coordinate) ==
    LET lat == from_f64(coordinate.x)
        lng == from_f64(coordinate.y)
    IN  IF ~lat.some THEN Failed("Waypoint", "FloatToDecimalConversionError")
        ELSE IF ~lng.some
             THEN Failed("Waypoint", "FloatToDecimalConversionError")
             ELSE LET lat_lng == try_from_dec(lat.dec, lng.dec)
                  IN  IF ~lat_lng.ok THEN Failed("Waypoint", lat_lng.err)
                      ELSE [ok |-> TRUE, target |-> "Waypoint",
                            variant |-> "LatLng", lat |-> lat_lng.lat,
                            lng |-> lat_lng.lng, err |-> "-"]

\* impl TryFrom<&Coord> for Waypoint
WaypointTryFromCoord(coordinate) ==
    LET lat == from_f64(coordinate.y)
        lng == from_f64(coordinate.x)
    IN  IF ~lat.some THEN Failed("Waypoint", "FloatToDecimalConversionError")
        ELSE IF ~lng.some
             THEN Failed("Waypoint", "FloatToDecimalConversionError")
             ELSE LET lat_lng == try_from_dec(lat.dec, lng.dec)
                  IN  IF ~lat_lng.ok THEN Failed("Waypoint", lat_lng.err)
                      ELSE [ok |-> TRUE, target |-> "Waypoint",
                            variant |-> "LatLng", lat |-> lat_lng.lat,
                            lng |-> lat_lng.lng, err |-> "-"]

\* impl TryFrom<&Point> for Waypoint
WaypointTryFromPoint(point) ==
    LET lat == from_f64(point.coord.y)
        lng == from_f64(point.coord.x)
    IN  IF ~lat.some THEN Failed("Waypoint", "FloatToDecimalConversionError")
        ELSE IF ~lng.some
             THEN Failed("Waypoint", "FloatToDecimalConversionError")
             ELSE LET lat_lng == try_from_dec(lat.dec, lng.dec)
                  IN  IF ~lat_lng.ok THEN Failed("Waypoint", lat_lng.err)
                      ELSE [ok |-> TRUE, target |-> "Waypoint",
                            variant |-> "LatLng", lat |-> lat_lng.lat,
                            lng |-> lat_lng.lng, err |-> "-"]

\* nothing was converted yet
NotConverted ==
    [source |-> "none", x |-> NaN, y |-> NaN,
     location |-> Failed("Location", "-"), waypoint |-> Failed("Waypoint", "-")]

\* a Coord is converted into a Location and into a Waypoint
ConvertCoord(floats) ==
    /\ \E x, y \in floats :
          conversion' = [source |-> "Coord", x |-> x, y |-> y,
                         location |-> LocationTryFromCoord(Coord(x, y)),
                         waypoint |-> WaypointTryFromCoord(Coord(x, y))]
    /\ UNCHANGED <<now, client, stamps, calls, reverse_request, passed>>

\* a Point is converted into a Location and into a Waypoint
ConvertPoint(floats) ==
    /\ \E x, y \in floats :
          conversion' = [source |-> "Point", x |-> x, y |-> y,
                         location |-> LocationTryFromPoint(Point(x, y)),
                         waypoint |-> WaypointTryFromPoint(Point(x, y))]
    /\ UNCHANGED <<now, client, stamps, calls, reverse_request, passed>>

\* no builder was called and nothing was converted
BuildersUnused ==
    /\ reverse_request = NewReverseRequest
    /\ passed = <<>>
    /\ conversion = NotConverted

\* ------------------------------------------------------------------------
\* Specifications

\* the transport results the concurrent specification draws from: one of
\* each class
SomeResults == {NoResponse, HttpOnly(404), Parsed("Ok")}

Init ==
    /\ now = 0
    /\ client \in [rate_map : RateMaps, max_retries : {1}]
    /\ stamps = [a \in Api |-> <<>>]
    /\ calls = <<>>
    /\ BuildersUnused

\* concurrent Time Zone and Place Autocomplete calls through one client,
\* up to MaxTime
Next ==
    \/ Get(NumCalls, {"TimeZone", "PlaceAutocomplete"})
    \/ \E i \in Issued : Admit(i)
    \/ \E i \in Issued : Send(i)
    \/ \E i \in Issued : Receive(i, MaxAttempts, SomeResults)
    \/ \E i \in Issued : Wake(i)
    \/ Tick(NumCalls, MaxTime, MaxRtt)

Spec == Init /\ [][Next]_vars

\* concurrent Time Zone calls under one budget of one call per two ticks,
\* each of which the caller may drop while it is suspended
InitDrop ==
    /\ now = 0
    /\ client \in [rate_map : {RateMap(Budget(1, 2), Budget(0, 0), Budget(0, 0))},
                    max_retries : {1}]
    /\ stamps = [a \in Api |-> <<>>]
    /\ calls = <<>>
    /\ BuildersUnused

NextDrop ==
    \/ Get(NumCalls, {"TimeZone"})
    \/ \E i \in Issued : Admit(i)
    \/ \E i \in Issued : Send(i)
    \/ \E i \in Issued : Receive(i, MaxAttempts, SomeResults)
    \/ \E i \in Issued : Wake(i)
    \/ \E i \in Issued : Drop(i)
    \/ Tick(NumCalls, MaxTime, MaxRtt)

SpecDrop == InitDrop /\ [][NextDrop]_vars

\* get() is called no later than deadline
GetBefore(limit, endpoints, deadline) ==
    /\ now <= deadline
    /\ Get(limit, endpoints)

\* long enough for every call issued up to MaxTime to get its turn under
\* a budget of one call per two ticks
AdmitHorizon == MaxTime + 2 * NumCalls

\* concurrent Time Zone calls that queue for one budget and are answered
\* at their first attempt, under a scheduler that keeps polling them while
\* time passes
InitAdmit ==
    /\ now = 0
    /\ client \in [rate_map : {RateMap(Budget(1, 2), Budget(0, 0), Budget(0, 0)),
                                RateMap(Budget(1, 2), Budget(1, 2), Budget(1, 2))},
                    max_retries : {1}]
    /\ stamps = [a \in Api |-> <<>>]
    /\ calls = <<>>
    /\ BuildersUnused

NextAdmit ==
    \/ GetBefore(NumCalls, {"TimeZone"}, MaxTime)
    \/ \E i \in Issued : Admit(i)
    \/ \E i \in Issued : Send(i)
    \/ \E i \in Issued : Receive(i, 1, SomeResults)
    \/ Tick(NumCalls, AdmitHorizon, 0)

SpecAdmit == InitAdmit /\ [][NextAdmit]_vars /\ WF_vars(NextAdmit)

\* ticks in a second: a tick is half the initial backoff interval of 500 ms
TicksPerSecond == 4

\* the clock moves only once n calls have been issued
TickAfter(n, horizon, rtt) ==
    /\ Len(calls) = n
    /\ Tick(n, horizon, rtt)

\* a burst: BurstCalls Time Zone calls issued together at time 0 through a
\* client of BurstMaxCalls calls per BurstSeconds, each answered at its
\* first attempt
BurstCalls == 5

BurstMaxCalls == 2

BurstSeconds == 10

BurstInterval == BurstSeconds * TicksPerSecond

InitBurst ==
    /\ now = 0
    /\ client \in [rate_map : {RateMap(Budget(BurstMaxCalls, BurstInterval),
                                        Budget(0, 0), Budget(0, 0))},
                    max_retries : {1}]
    /\ stamps = [a \in Api |-> <<>>]
    /\ calls = <<>>
    /\ BuildersUnused

NextBurst ==
    \/ Get(BurstCalls, {"TimeZone"})
    \/ \E i \in Issued : Admit(i)
    \/ \E i \in Issued : Send(i)
    \/ \E i \in Issued : Receive(i, 1, SomeResults)
    \/ TickAfter(BurstCalls, 3 * BurstInterval, 0)

SpecBurst == InitBurst /\ [][NextBurst]_vars

\* one Nearby Search call followed through its whole retry loop, with
\* every transport result and no bound on its attempts other than the
\* backoff's own
RetryHorizon ==
    max_elapsed_time + max_interval
        + (randomization_num * max_interval) \div randomization_den + 1

NoRates == [a \in Api |-> Budget(0, 0)]

InitRetry ==
    /\ now = 0
    /\ client \in [rate_map : {NoRates}, max_retries : MaxRetriesSettings]
    /\ stamps = [a \in Api |-> <<>>]
    /\ calls = <<>>
    /\ BuildersUnused

NextRetry ==
    \/ Get(1, {"NearbySearch"})
    \/ \E i \in Issued : Admit(i)
    \/ \E i \in Issued : Send(i)
    \/ \E i \in Issued : Receive(i, RetryHorizon, TransportResults)
    \/ \E i \in Issued : Wake(i)
    \/ Tick(1, RetryHorizon, 0)

SpecRetry == InitRetry /\ [][NextRetry]_vars

\* one Nearby Search call whose every attempt fails transiently, through a
\* client built with_max_retries(5)
InitPolicy ==
    /\ now = 0
    /\ client \in [rate_map : {NoRates}, max_retries : {5}]
    /\ stamps = [a \in Api |-> <<>>]
    /\ calls = <<>>
    /\ BuildersUnused

NextPolicy ==
    \/ Get(1, {"NearbySearch"})
    \/ \E i \in Issued : Admit(i)
    \/ \E i \in Issued : Send(i)
    \/ \E i \in Issued : Receive(i, RetryHorizon, TransientResults)
    \/ \E i \in Issued : Wake(i)
    \/ Tick(1, RetryHorizon, 0)

SpecPolicy == InitPolicy /\ [][NextPolicy]_vars

\* one call of each endpoint through a client without rate limits, all
\* three issued at the same time and given the same transport results
InitSame ==
    /\ now = 0
    /\ client \in [rate_map : {NoRates}, max_retries : {1}]
    /\ stamps = [a \in Api |-> <<>>]
    /\ calls = <<>>
    /\ BuildersUnused

NextSame ==
    \/ GetNext
    \/ \E i \in Issued : Admit(i)
    \/ \E i \in Issued : Send(i)
    \/ ReceiveSame(MaxAttempts, TransportResults)
    \/ \E i \in Issued : Wake(i)
    \/ TickAfter(Len(EndpointOrder), RetryHorizon, 0)

SpecSame == InitSame /\ [][NextSame]_vars

\* the location types the builders are called with
SomeLocationTypes == {"RoofTop", "RangeInterpolated"}

\* a reverse-geocoding request on which the two builders are called in
\* any order
InitBuild ==
    /\ now = 0
    /\ client \in [rate_map : {NoRates}, max_retries : {1}]
    /\ stamps = [a \in Api |-> <<>>]
    /\ calls = <<>>
    /\ BuildersUnused

NextBuild ==
    \/ WithLocationType(MaxBuilderCalls, SomeLocationTypes)
    \/ WithLocationTypes(MaxBuilderCalls, SomeLocationTypes, MaxSlice)

SpecBuild == InitBuild /\ [][NextBuild]_vars

\* the coordinates converted: the ends of the latitude and longitude
\* ranges, their neighbours outside, and the values no Decimal holds
SomeFloats ==
    {F64(v, e) : v \in {-181, -180, -91, -90, 0, 90, 91, 180, 181},
                 e \in {0, 1}}
        \cup {NaN, Infinity, BeyondDecimal}

\* conversions of Coords and Points
InitConvert ==
    /\ now = 0
    /\ client \in [rate_map : {NoRates}, max_retries : {1}]
    /\ stamps = [a \in Api |-> <<>>]
    /\ calls = <<>>
    /\ BuildersUnused

NextConvert ==
    \/ ConvertCoord(SomeFloats)
    \/ ConvertPoint(SomeFloats)

SpecConvert == InitConvert /\ [][NextConvert]_vars

\* one Time Zone call under a scheduler that keeps running it: the executor
\* polls the future whenever it can make a step, timers fire and every
\* transport call comes back
InitLive ==
    /\ now = 0
    /\ client \in [rate_map : {NoRates}, max_retries : {1}]
    /\ stamps = [a \in Api |-> <<>>]
    /\ calls = <<>>
    /\ BuildersUnused

NextLive ==
    \/ Get(1, {"TimeZone"})
    \/ \E i \in Issued : Admit(i)
    \/ \E i \in Issued : Send(i)
    \/ \E i \in Issued : Receive(i, RetryHorizon, SomeResults)
    \/ \E i \in Issued : Wake(i)
    \/ Tick(1, RetryHorizon, 0)

SpecLive == InitLive /\ [][NextLive]_vars /\ WF_vars(NextLive)

\* ------------------------------------------------------------------------
\* Properties

\* the categories a call of endpoint e counts against
CategoriesOf(e) == {"All", ApiOf(e)}

Finite(a) == client.rate_map[a].max_calls > 0 /\ client.rate_map[a].per_interval > 0

Admitted(i) == calls[i].admitAt # None

\* the calls admitted for category a at a time in lo..hi
AdmittedIn(a, lo, hi) ==
    {i \in Issued : /\ Admitted(i)
                    /\ a \in CategoriesOf(calls[i].endpoint)
                    /\ calls[i].admitAt >= lo
                    /\ calls[i].admitAt <= hi}

\* C1: for a budget of N > 0 calls per T > 0 ticks, no T consecutive
\* ticks hold more than N admissions of that category.
C1_WindowNeverOversubscribed ==
    \A a \in Api : Finite(a) =>
        \A t \in 0..now :
            Cardinality(AdmittedIn(a, t, t + client.rate_map[a].per_interval - 1))
                <= client.rate_map[a].max_calls

\* two calls competed for one slot of a finite budget and the second was
\* admitted one interval after the first
C1_Witness ==
    \E a \in Api, i, j \in Issued :
        /\ Finite(a) /\ i # j
        /\ a \in CategoriesOf(calls[i].endpoint) \cap CategoriesOf(calls[j].endpoint)
        /\ Admitted(i) /\ Admitted(j)
        /\ calls[j].reqAt = calls[i].admitAt
        /\ calls[j].admitAt = calls[i].admitAt + client.rate_map[a].per_interval

\* C2: a call that has made k >= 1 attempts has been charged exactly once
\* under Api::All and once under its own Api, and under nothing else.
C2_ChargedOncePerCall ==
    \A i \in Issued : calls[i].attempts >= 1 =>
        \A a \in Api :
            calls[i].charges[a] =
                IF a \in CategoriesOf(calls[i].endpoint) THEN 1 ELSE 0

\* a call on its second attempt
C2_Witness ==
    \E i \in Issued :
        /\ calls[i].attempts >= 2
        /\ calls[i].charges["All"] = 1
        /\ Finite("All")

\* C3: with the client's max_retries set to R, an always-retryable call
\* makes at most R + 1 attempts.
C3_AtMostMaxRetriesPlusOne ==
    \A i \in Issued : calls[i].attempts <= client.max_retries + 1

\* C4: after an attempt classified Permanent the call is over with that
\* attempt's error: nothing is sent and nothing is slept after it.
C4_PermanentEndsCall ==
    \A i \in Issued : Classify(calls[i].lastResp) = "Permanent" =>
        /\ calls[i].pc = "done"
        /\ calls[i].wakeAt = None
        /\ calls[i].sentAt = None
        /\ calls[i].result = [kind |-> "err", attempt |-> calls[i].attempts,
                              err |-> ErrorOf(calls[i].lastResp)]
        /\ calls[i].attempts = 1 => calls[i].lastDelay = None

\* the first attempt was answered with a client error and the call ended
C4_Witness ==
    \E i \in Issued :
        /\ calls[i].lastResp = HttpOnly(404)
        /\ calls[i].attempts = 1
        /\ calls[i].pc = "done"

\* C5: after an attempt answered 200 with a parsed body of status Ok the
\* call is over with that attempt's value, and it stays charged once.
C5_SuccessEndsCall ==
    \A i \in Issued : calls[i].lastResp = Parsed("Ok") =>
        /\ calls[i].pc = "done"
        /\ calls[i].wakeAt = None
        /\ calls[i].sentAt = None
        /\ calls[i].result = [kind |-> "ok", attempt |-> calls[i].attempts,
                              err |-> "-"]
        /\ \A a \in CategoriesOf(calls[i].endpoint) : calls[i].charges[a] = 1

\* success on the third attempt
C5_Witness ==
    \E i \in Issued :
        /\ calls[i].lastResp = Parsed("Ok")
        /\ calls[i].attempts = 3
        /\ calls[i].result.kind = "ok"

\* C6: within one call every backoff delay is at least the previous one
\* and none exceeds max_interval.
C6_DelaysMonotoneAndCapped ==
    [][\A i \in Issued :
          /\ calls'[i].lastDelay # None => calls'[i].lastDelay <= max_interval
          /\ calls[i].lastDelay # None => calls'[i].lastDelay >= calls[i].lastDelay]_vars

\* C7: an admitted call has been charged under Api::All and under its own
\* Api, its admission is in the books of both while it counts, and at its
\* admission neither budget was exceeded.
C7_BothBudgetsCharged ==
    \A i \in Issued : Admitted(i) =>
        \A a \in CategoriesOf(calls[i].endpoint) :
            /\ calls[i].charges[a] = 1
            /\ Finite(a) =>
                /\ Cardinality(AdmittedIn(a,
                       calls[i].admitAt - client.rate_map[a].per_interval + 1,
                       calls[i].admitAt)) <= client.rate_map[a].max_calls
                /\ now - calls[i].admitAt < client.rate_map[a].per_interval =>
                       \E k \in 1..Len(stamps[a]) : stamps[a][k] = calls[i].admitAt

\* a call under two finite budgets that had to wait for its admission
C7_Witness ==
    \E i \in Issued :
        /\ Admitted(i)
        /\ calls[i].admitAt > calls[i].reqAt
        /\ \A a \in CategoriesOf(calls[i].endpoint) :
              Finite(a) /\ calls[i].charges[a] = 1

\* C8: a call that is sending, has sent or sleeps between attempts was
\* admitted before, and no attempt was sent before the admission.
C8_AdmissionBeforeAttempt ==
    \A i \in Issued :
        (calls[i].attempts >= 1 \/ calls[i].pc \in {"attempt", "inflight", "backoff"}) =>
            /\ Admitted(i)
            /\ calls[i].charges["All"] >= 1
            /\ calls[i].sentAt # None => calls[i].admitAt <= calls[i].sentAt

\* a call that waited for its admission and then made its attempt
C8_Witness ==
    \E i \in Issued :
        /\ calls[i].attempts >= 1
        /\ Admitted(i)
        /\ calls[i].admitAt > calls[i].reqAt

\* category a had no free slot at time t
Full(a, t) ==
    Cardinality(AdmittedIn(a, t - client.rate_map[a].per_interval + 1, t))
        >= client.rate_map[a].max_calls

\* C9: a budget with max_calls = 0 or per_interval = 0 never delays a
\* call: whenever a call has waited, one of its budgets with max_calls > 0
\* and per_interval > 0 was full.
C9_UnlimitedNeverDelays ==
    \A i \in Issued :
        LET limited == {a \in CategoriesOf(calls[i].endpoint) : Finite(a)}
        IN  /\ (calls[i].pc = "waiting" /\ now > calls[i].reqAt) =>
                   \E a \in limited : Full(a, now - 1)
            /\ (Admitted(i) /\ calls[i].admitAt > calls[i].reqAt) =>
                   \E a \in limited : Full(a, calls[i].admitAt - 1)

\* two calls admitted in the same tick under a category without limit,
\* one with max_calls = 0 and one with per_interval = 0
C9_Witness ==
    \E i, j \in Issued :
        /\ i # j
        /\ calls[i].endpoint = "TimeZone" /\ calls[j].endpoint = "PlaceAutocomplete"
        /\ client.rate_map["All"].max_calls = 0
        /\ client.rate_map["TimeZone"].per_interval = 0
        /\ client.rate_map["Places"].max_calls = 0
        /\ Admitted(i) /\ Admitted(j)
        /\ calls[i].admitAt = calls[j].admitAt
        /\ calls[i].admitAt = calls[i].reqAt /\ calls[j].admitAt = calls[j].reqAt

\* C10: under fair scheduling every call that was issued ends, even when
\* every attempt fails with a transient error.
C10_EveryCallEnds ==
    \A i \in 1..NumCalls :
        (Len(calls) >= i) ~> (Len(calls) >= i /\ calls[i].pc = "done")

\* the call gave up on a transient error after retrying for the whole
\* max_elapsed_time
C10_Witness ==
    \E i \in Issued :
        /\ calls[i].pc = "done"
        /\ Classify(calls[i].lastResp) = "Transient"
        /\ calls[i].result.kind = "err"
        /\ calls[i].attempts > 1
        /\ now - calls[i].start_time + max_interval > max_elapsed_time

\* C11: the retry loop follows the client's retry settings: a call sleeps
\* for another attempt only while it has made no more than max_retries
\* attempts, and when it gives up on a transient error it has made exactly
\* max_retries + 1 attempts.
C11_RetrySettingsObeyed ==
    \A i \in Issued :
        /\ calls[i].pc = "backoff" => calls[i].attempts <= client.max_retries
        /\ (calls[i].pc = "done" /\ Classify(calls[i].lastResp) = "Transient") =>
               calls[i].attempts = client.max_retries + 1

C13_AdmissionOnlyDelays ==
    /\ [](\A i \in Issued :
             (calls[i].query /\ calls[i].pc = "done") => calls[i].admitAt # None)
    /\ \A i \in 1..NumCalls :
          (Len(calls) >= i /\ calls[i].pc = "waiting")
              ~> (Len(calls) >= i /\ calls[i].admitAt # None)

\* a call had to wait for a slot for a whole interval and was then admitted
C13_Witness ==
    \E i \in Issued :
        /\ calls[i].admitAt # None
        /\ calls[i].admitAt >= calls[i].reqAt + 2
        /\ Finite("All")

\* the calls of the burst admitted at time t
AdmittedAt(t) == {i \in Issued : calls[i].admitAt = t}

\* C14: with a budget of 2 calls per 10 s and 5 calls issued together at
\* time 0, exactly 2 calls are admitted at 0, exactly 2 more at 10 s and
\* the last one at 20 s, in whatever order the callers are served.
C14_BurstAdmittedTwoTwoOne ==
    (Len(calls) = BurstCalls /\ \A i \in Issued : calls[i].query) =>
        /\ \A i \in Issued :
               calls[i].admitAt \in {None, 0, BurstInterval, 2 * BurstInterval}
        /\ now > 0 => Cardinality(AdmittedAt(0)) = 2
        /\ now > BurstInterval => Cardinality(AdmittedAt(BurstInterval)) = 2
        /\ (\A i \in Issued : calls[i].pc = "done") =>
               /\ Cardinality(AdmittedAt(0)) = 2
               /\ Cardinality(AdmittedAt(BurstInterval)) = 2
               /\ Cardinality(AdmittedAt(2 * BurstInterval)) = 1

\* all five calls of the burst were served, the fifth caller among the
\* first two and the first caller last
C14_Witness ==
    /\ Len(calls) = BurstCalls
    /\ \A i \in Issued : calls[i].query /\ calls[i].pc = "done"
    /\ calls[5].admitAt = 0
    /\ calls[1].admitAt = 2 * BurstInterval
    /\ now = 2 * BurstInterval

\* the delay before retry k under the policy {initial_delay = 1 s,
\* max_delay = 8 s, multiplier = 2}, in ticks
RECURSIVE PolicyDelay(_)
PolicyDelay(k) ==
    IF k <= 1 THEN TicksPerSecond
    ELSE LET d == 2 * PolicyDelay(k - 1)
         IN  IF d > 8 * TicksPerSecond THEN 8 * TicksPerSecond ELSE d

\* C15: with max_retries = 5 and a retry policy of 1 s initial delay
\* doubling up to 8 s, a call whose attempts all fail transiently sleeps
\* 1 s, 2 s, 4 s, 8 s, 8 s, ... between its attempts and fails after 6
\* attempts in total.
C15_PolicyDelaySequence ==
    \A i \in Issued :
        /\ calls[i].attempts <= client.max_retries + 1
        /\ calls[i].pc = "backoff" =>
               calls[i].lastDelay = PolicyDelay(calls[i].attempts)
        /\ (calls[i].pc = "done" /\ calls[i].query) =>
               calls[i].attempts = client.max_retries + 1

\* the backoff has no delay left for a call that started at start_time:
\* even the shortest sleep at the largest interval would end after
\* max_elapsed_time
Exhausted(c) ==
    (now - c.start_time)
        + (max_interval + (randomization_num * max_interval) \div randomization_den)
        > max_elapsed_time

\* C16: a call that gives up because the retry bound is reached, its last
\* attempt having failed transiently like the ones before, returns the
\* error of that last attempt: not the error of an earlier attempt and not
\* an error made up for the occasion.
C16_ExhaustedReturnsLastError ==
    \A i \in Issued :
        (/\ calls[i].pc = "done"
         /\ calls[i].attempts >= 1
         /\ Classify(calls[i].lastResp) = "Transient") =>
            /\ calls[i].result.kind = "err"
            /\ calls[i].result.attempt = calls[i].attempts
            /\ calls[i].result.err = ErrorOf(calls[i].lastResp)
            /\ Exhausted(calls[i])

\* after 15 minutes of transient failures the last attempt was answered
\* 200 with status UnknownError, and that is the error the call returned
C16_Witness ==
    \E i \in Issued :
        /\ calls[i].pc = "done"
        /\ calls[i].attempts > 2
        /\ calls[i].lastResp = Parsed("UnknownError")
        /\ calls[i].result = [kind |-> "err", attempt |-> calls[i].attempts,
                              err |-> "GoogleMapsService"]
        /\ now - calls[i].start_time >= max_elapsed_time - max_interval

\* call c is being retried after its last attempt: it sleeps or is at its
\* next attempt, or it has given up only because the backoff had no delay
\* left
Retried(c) ==
    \/ c.pc \in {"backoff", "attempt", "inflight"}
    \/ c.pc = "done" /\ Exhausted(c)

\* call c ended with the error err of its last attempt, without a sleep
\* after it
EndedWith(c, err) ==
    /\ c.pc = "done"
    /\ c.wakeAt = None
    /\ c.result = [kind |-> "err", attempt |-> c.attempts, err |-> err]

\* C17: an attempt answered with a non-2xx status is retried exactly when
\* the status is a 5xx or 429; after any other non-2xx status the call
\* ends with that HTTP error.
C17_NonSuccessRetriedIffServerOr429 ==
    \A i \in Issued :
        LET r == calls[i].lastResp
        IN  (r.resp /\ ~is_success(r.code)) =>
                IF r.code \in 500..599 \/ r.code = 429
                THEN Retried(calls[i])
                ELSE EndedWith(calls[i], "HttpUnsuccessful")

\* the second attempt was answered 429 and the call sleeps for a third
C17_Witness ==
    \E i \in Issued :
        /\ calls[i].lastResp = HttpOnly(429)
        /\ calls[i].attempts = 2
        /\ calls[i].pc = "backoff"

\* C18: after a 2xx answer whose body parses, the call succeeds when the
\* remote status is Ok, is retried when it is UnknownError, and ends with
\* the service's error for every other status.
C18_OnlyUnknownErrorRetried ==
    \A i \in Issued :
        LET r == calls[i].lastResp
        IN  (r.resp /\ is_success(r.code) /\ r.text /\ r.json) =>
                IF r.status = "Ok"
                THEN calls[i].pc = "done" /\ calls[i].result.kind = "ok"
                ELSE IF r.status = "UnknownError"
                THEN Retried(calls[i])
                ELSE EndedWith(calls[i], "GoogleMapsService")

\* an UnknownError answer was retried and the next answer, InvalidRequest,
\* ended the call
C18_Witness ==
    \E i \in Issued :
        /\ calls[i].lastResp = Parsed("InvalidRequest")
        /\ calls[i].attempts = 2
        /\ calls[i].lastDelay # None
        /\ calls[i].result.err = "GoogleMapsService"

\* C19: a 2xx answer whose body does not parse ends the call with the
\* parse error at that attempt; it is never retried.
C19_ParseFailureIsTerminal ==
    \A i \in Issued :
        LET r == calls[i].lastResp
        IN  (r.resp /\ is_success(r.code) /\ r.text /\ ~r.json) =>
                EndedWith(calls[i], "SerdeJson")

\* the body of the third answer did not parse
C19_Witness ==
    \E i \in Issued :
        /\ calls[i].lastResp = JsonError
        /\ calls[i].attempts = 3
        /\ calls[i].result.err = "SerdeJson"

\* C20: an attempt that got no response is retried while the backoff has a
\* delay left, and when it has none the call ends with the transport's
\* error.
C20_NoResponseRetried ==
    \A i \in Issued :
        (calls[i].attempts >= 1 /\ calls[i].lastResp = NoResponse) =>
            /\ Retried(calls[i])
            /\ calls[i].pc = "done" => EndedWith(calls[i], "Reqwest")

\* three attempts in a row got no response and the call sleeps for a fourth
C20_Witness ==
    \E i \in Issued :
        /\ calls[i].lastResp = NoResponse
        /\ calls[i].attempts = 3
        /\ calls[i].pc = "backoff"
        /\ calls[i].wakeAt > now

\* C21: get() on a request without a built query returns QueryNotBuilt at
\* once: the call never asks for admission and makes no attempt, and the
\* step that issues it leaves the limiter's books as they were.
C21_QueryNotBuiltTouchesNothing ==
    [][\A i \in 1..Len(calls') :
          ~calls'[i].query =>
              /\ calls'[i].pc = "done"
              /\ calls'[i].result = [kind |-> "err", attempt |-> 0,
                                     err |-> "QueryNotBuilt"]
              /\ calls'[i].attempts = 0
              /\ calls'[i].reqAt = None /\ calls'[i].admitAt = None
              /\ \A a \in Api : calls'[i].charges[a] = 0
              /\ i > Len(calls) => stamps' = stamps]_vars

\* a request without a query was refused while the budgets had a slot to
\* give, which the next call then took
C21_Witness ==
    \E i, j \in Issued :
        /\ i < j
        /\ ~calls[i].query
        /\ calls[i].result.err = "QueryNotBuilt"
        /\ calls[j].query /\ Admitted(j)
        /\ Finite("All") /\ Len(stamps["All"]) = 1

\* the slots category a has free now
FreeSlots(a) == client.rate_map[a].max_calls - Len(InWindow(a, now))

\* the calls that a step charges under category a
ChargedInStep(a) ==
    {i \in Issued : calls'[i].charges[a] > calls[i].charges[a]}

\* C22: deciding an admission and recording it are one step: no step
\* admits more callers under a finite budget than the budget had free
\* slots before the step, and the books hold every admission the step
\* granted, so that two callers never share one free slot.
C22_AdmissionIsOneStep ==
    [][\A a \in Api : Finite(a) =>
          /\ Cardinality(ChargedInStep(a)) <= FreeSlots(a)
          /\ ChargedInStep(a) # {} =>
                 /\ Cardinality(ChargedInStep(a)) = 1
                 /\ Len(stamps'[a]) <= client.rate_map[a].max_calls
                 /\ stamps'[a][Len(stamps'[a])] = now]_vars

\* two callers waited for the one free slot of a budget at the same time:
\* one has just been given it and the other is still waiting
C22_Witness ==
    \E i, j \in Issued :
        /\ i # j
        /\ Finite("All")
        /\ calls[i].reqAt = calls[j].reqAt
        /\ calls[i].admitAt = now
        /\ calls[j].pc = "waiting"
        /\ ~CanAdmit(LimitApis(calls[j].endpoint), now)

C24_AttemptsStrictlySequential ==
    [][\A i \in Issued :
          /\ calls'[i].attempts # calls[i].attempts =>
                 /\ calls'[i].attempts = calls[i].attempts + 1
                 /\ calls[i].pc = "attempt"
                 /\ calls[i].sentAt = None /\ calls[i].wakeAt = None
                 /\ calls[i].attempts >= 1 => calls[i].lastResp # NoResult
          /\ (calls'[i].sentAt # None) <=> (calls'[i].pc = "inflight")
          /\ (calls[i].pc # "backoff" /\ calls'[i].pc = "backoff") =>
                 /\ calls[i].pc = "inflight"
                 /\ calls'[i].lastResp # NoResult
                 /\ calls'[i].wakeAt = now + calls'[i].lastDelay
          /\ (calls[i].pc = "backoff" /\ calls'[i].pc # "backoff") =>
                 now >= calls[i].wakeAt]_vars

\* the third attempt is in flight after two sleeps of the longer kind
C24_Witness ==
    \E i \in Issued :
        /\ calls[i].pc = "inflight"
        /\ calls[i].attempts = 3
        /\ calls[i].lastDelay = 4
        /\ now = calls[i].start_time + 7

\* C25: a suspended call holds nobody up: whatever the other calls are
\* waiting for, a call whose budgets have a free slot can be admitted, an
\* admitted call can send its attempt and an attempt in flight can come
\* back.
C25_SuspendedCallsDoNotBlock ==
    \A j \in Issued :
        /\ (/\ calls[j].pc = "waiting"
            /\ \A a \in CategoriesOf(calls[j].endpoint) :
                   Finite(a) => ~Full(a, now)) => ENABLED Admit(j)
        /\ calls[j].pc = "attempt" => ENABLED Send(j)
        /\ calls[j].pc = "inflight" => ENABLED Receive(j, MaxAttempts, SomeResults)

\* a call was issued, admitted and answered while an earlier call was
\* sleeping between two attempts, and that call still sleeps
C25_Witness ==
    \E i, j \in Issued :
        /\ i # j
        /\ calls[i].pc = "backoff" /\ calls[i].wakeAt > now
        /\ calls[j].reqAt > calls[i].admitAt
        /\ calls[j].pc = "done" /\ calls[j].result.kind = "ok"

\* the interval the backoff is at before retry k: initial_interval first,
\* then multiplied and capped at max_interval after each retry
RECURSIVE IntervalAt(_)
IntervalAt(k) ==
    IF k <= 1 THEN initial_interval
    ELSE LET grown == (IntervalAt(k - 1) * multiplier_num) \div multiplier_den
         IN  IF grown > max_interval THEN max_interval ELSE grown

C27_NoSleepPastMaxElapsedTime ==
    \A i \in Issued :
        /\ calls[i].pc = "backoff" =>
               /\ calls[i].wakeAt - calls[i].start_time <= max_elapsed_time
               /\ calls[i].lastDelay <= max_elapsed_time
        /\ calls[i].pc = "inflight" =>
               calls[i].sentAt - calls[i].start_time <= max_elapsed_time
        /\ (calls[i].attempts >= 1 /\ now - calls[i].start_time > max_elapsed_time) =>
               calls[i].pc = "done"

\* the call gave up within max_elapsed_time because even the shortest
\* sleep did not fit into what was left of it
C27_Witness ==
    \E i \in Issued :
        /\ calls[i].pc = "done"
        /\ calls[i].lastResp = HttpOnly(500)
        /\ calls[i].result.err = "HttpUnsuccessful"
        /\ now - calls[i].start_time <= max_elapsed_time
        /\ max_elapsed_time - (now - calls[i].start_time) < max_interval \div 2

\* the retry state of call record c
RetryState(c) == <<c.attempts, c.current_interval, c.start_time, c.lastDelay, c.wakeAt>>

\* C28: the retry state belongs to one call: a call starts with no attempt
\* made and the initial interval, its interval is the one its own number
\* of attempts gives, and a step that changes the retry state of one call
\* leaves every other call as it was.
C28_RetryStatePrivate ==
    [][/\ \A i \in 1..Len(calls') :
             /\ i > Len(calls) =>
                    RetryState(calls'[i]) = <<0, initial_interval, None, None, None>>
             /\ calls'[i].current_interval \in
                    {IntervalAt(calls'[i].attempts), IntervalAt(calls'[i].attempts + 1)}
             /\ (calls'[i].pc = "backoff" /\ calls'[i].attempts = 1) =>
                    calls'[i].lastDelay <= initial_interval + initial_interval \div 2
       /\ \A i, j \in Issued :
             (i # j /\ RetryState(calls'[i]) # RetryState(calls[i])) =>
                 calls'[j] = calls[j]]_vars

\* while one call sleeps after its first attempt, its interval grown, a
\* later call makes its own first attempt from the initial interval
C28_Witness ==
    \E i, j \in Issued :
        /\ i < j
        /\ calls[i].pc = "backoff" /\ calls[i].attempts = 1
        /\ calls[i].current_interval > initial_interval
        /\ calls[j].pc = "inflight" /\ calls[j].attempts = 1
        /\ calls[j].current_interval = initial_interval
        /\ calls[j].start_time >= calls[i].start_time

\* C29: get() hands on what the retry loop ended with: when the call ends,
\* its result is the value of the attempt that succeeded or the error, of
\* unchanged kind, of the attempt that ended the loop; after that the call
\* makes no attempt, takes no slot and never changes.
C29_GetPassesLoopResultThrough ==
    [][\A i \in Issued :
          /\ (calls[i].pc = "inflight" /\ calls'[i].pc = "done") =>
                 /\ calls'[i].result.attempt = calls'[i].attempts
                 /\ calls'[i].attempts = calls[i].attempts
                 /\ IF calls'[i].lastResp = Parsed("Ok")
                    THEN calls'[i].result.kind = "ok"
                    ELSE /\ calls'[i].result.kind = "err"
                         /\ calls'[i].result.err = ErrorOf(calls'[i].lastResp)
                 /\ stamps' = stamps
          /\ calls[i].pc = "done" =>
                 /\ calls'[i] = calls[i]
                 /\ \A a \in Api : calls[i].charges[a] > 0 => stamps'[a] = stamps[a]]_vars

\* the body of the second answer could not be read, and the call ended
\* with that error
C29_Witness ==
    \E i \in Issued :
        /\ calls[i].pc = "done"
        /\ calls[i].lastResp = TextError
        /\ calls[i].attempts = 2
        /\ calls[i].result = [kind |-> "err", attempt |-> 2, err |-> "ReqwestMessage"]

\* C30: no step of a call changes the client's settings: the budget of
\* every Api and the retry settings are in every state what they were when
\* the client was built.
C30_SettingsNeverChange ==
    [][/\ client' = client
       /\ \A a \in Api :
              /\ client'.rate_map[a].max_calls = client.rate_map[a].max_calls
              /\ client'.rate_map[a].per_interval = client.rate_map[a].per_interval
       /\ client'.max_retries = client.max_retries]_vars

\* under finite budgets for every Api one call has failed after a retry
\* and another has succeeded, and the budgets are still one call per two
\* ticks
C30_Witness ==
    \E i, j \in Issued :
        /\ calls[i].pc = "done" /\ calls[i].attempts = 2 /\ calls[i].result.kind = "err"
        /\ calls[j].pc = "done" /\ calls[j].result.kind = "ok"
        /\ \A a \in Api : client.rate_map[a] = Budget(1, 2)
        /\ Len(stamps["All"]) > 0

\* the attempt answered with r got a 2xx status, a body that was read and
\* parsed, and the remote status Ok
FullyOk(r) ==
    r.resp /\ r.code \in 200..299 /\ r.text /\ r.json /\ r.status = "Ok"

\* C31: a call returns a value only from an attempt that got a 2xx status,
\* a body that was read and parsed and the remote status Ok, and every such
\* attempt returns one; each classified attempt has exactly one outcome:
\* the value, a sleep before a retry, or an error.
C31_SuccessOnlyWhenAllFourHold ==
    \A i \in Issued :
        /\ calls[i].result.kind = "ok" =>
               /\ FullyOk(calls[i].lastResp)
               /\ calls[i].result.attempt = calls[i].attempts
               /\ calls[i].pc = "done"
        /\ (calls[i].lastResp # NoResult /\ ~FullyOk(calls[i].lastResp)) =>
               calls[i].result.kind # "ok"
        /\ FullyOk(calls[i].lastResp) => calls[i].result.kind = "ok"
        /\ calls[i].pc = "backoff" => calls[i].result.kind = "none"
        /\ (calls[i].pc = "done" /\ calls[i].attempts >= 1) =>
               /\ calls[i].result.kind \in {"ok", "err"}
               /\ calls[i].wakeAt = None

\* the value came from the second attempt, after one longer sleep
C31_Witness ==
    \E i \in Issued :
        /\ calls[i].result = [kind |-> "ok", attempt |-> 2, err |-> "-"]
        /\ FullyOk(calls[i].lastResp)
        /\ calls[i].lastDelay = 3

\* C32: when the status is 2xx and reading the body fails, the call ends
\* with ReqwestMessage at that attempt and is not retried, whereas an
\* attempt that got no response at all is followed by a sleep and a retry.
C32_BodyReadFailureIsTerminal ==
    \A i \in Issued :
        LET r == calls[i].lastResp
        IN  /\ (r.resp /\ r.code \in 200..299 /\ ~r.text) =>
                   EndedWith(calls[i], "ReqwestMessage")
            /\ (calls[i].attempts = 1 /\ r = NoResponse) =>
                   calls[i].pc \in {"backoff", "attempt"}

\* the first attempt got no response and was retried; the body of the
\* second answer could not be read and the call ended there
C32_Witness ==
    \E i \in Issued :
        /\ calls[i].lastResp = TextError
        /\ calls[i].attempts = 2
        /\ calls[i].lastDelay = 1
        /\ calls[i].pc = "done"
        /\ calls[i].result.err = "ReqwestMessage"

\* what a call record holds apart from its endpoint and the category it
\* charged
MachineState(c) ==
    <<c.query, c.pc, c.reqAt, c.admitAt, c.attempts, c.sentAt, c.lastResp,
      c.current_interval, c.start_time, c.wakeAt, c.lastDelay, c.result,
      c.charges["All"], c.charges[ApiOf(c.endpoint)]>>

\* C33: the get() operations of Time Zone, Place Autocomplete and Nearby
\* Search are one state machine up to the Api they charge: every transport
\* result is classified alike by the three closures, and calls of the three
\* endpoints that are given the same results stay together: they end
\* together with the same outcome, sleep the same delays, and are in the
\* same state whenever they are at the same position of the same attempt.
C33_EndpointsAreOneMachine ==
    /\ \A r \in TransportResults :
           /\ ClassifyTimeZone(r) = ClassifyPlaceAutocomplete(r)
           /\ ClassifyPlaceAutocomplete(r) = ClassifyNearbySearch(r)
    /\ \A i, j \in Issued :
           (calls[i].query /\ calls[j].query) =>
               /\ (calls[i].pc = calls[j].pc /\ calls[i].attempts = calls[j].attempts) =>
                      MachineState(calls[i]) = MachineState(calls[j])
               /\ (calls[i].pc = "done" /\ calls[j].attempts >= 1) =>
                      calls[j].pc = "done" /\ calls[j].result = calls[i].result
               /\ (calls[i].pc = "backoff" /\ calls[j].attempts >= 1) =>
                      /\ calls[j].pc \in {"backoff", "attempt", "inflight"}
                      /\ calls[j].lastDelay = calls[i].lastDelay
                      /\ calls[j].attempts \in
                             {calls[i].attempts, calls[i].attempts + 1}

\* the three calls failed transiently at their first attempt, slept the
\* same longer delay and were answered 200 with status Ok at their second
C33_Witness ==
    /\ Len(calls) = 3
    /\ \A i \in Issued :
          /\ calls[i].endpoint = EndpointOrder[i]
          /\ calls[i].lastResp = Parsed("Ok")
          /\ calls[i].result = [kind |-> "ok", attempt |-> 2, err |-> "-"]
          /\ calls[i].lastDelay = 3
          /\ calls[i].charges[ApiOf(calls[i].endpoint)] = 1

\* ------------------------------------------------------------------------
\* C34, C35: the request builders and the geo conversions

\* the location types of the builder calls made so far, in call order
RECURSIVE Concatenation(_)
Concatenation(slices) ==
    IF slices = <<>> THEN <<>>
    ELSE Head(slices) \o Concatenation(Tail(slices))

\* C34: after any sequence of with_location_type and with_location_types
\* calls on a reverse-geocoding request, location_types holds exactly the
\* concatenation of all the location types passed, in call order, with
\* duplicates kept and nothing replaced; it is None only when no such
\* call was made.
C34_LocationTypesAreAllPassedInOrder ==
    /\ reverse_request.location_types.vec = Concatenation(passed)
    /\ ~reverse_request.location_types.some => passed = <<>>
    /\ passed = <<>> => reverse_request.location_types = OptionNone

\* both builders were called, the first one with an empty slice, and the
\* same location type was passed twice
C34_Witness ==
    /\ Len(passed) = 3
    /\ passed[1] = <<>>
    /\ passed[2] = <<"RoofTop">>
    /\ passed[3] = <<"RangeInterpolated", "RoofTop">>
    /\ reverse_request.location_types
           = Some(<<"RoofTop", "RangeInterpolated", "RoofTop">>)

\* the coordinate has a Decimal
Convertible(f) == from_f64(f).some

\* C35: converting a geo Coord or Point to a directions Location or
\* Waypoint takes the latitude from y and the longitude from x and yields
\* the LatLng variant, or returns an error (FloatToDecimalConversionError,
\* or the LatLng range error) and no value when either coordinate cannot
\* be converted or is out of range; the Location and Waypoint conversions
\* accept and reject exactly the same inputs.
C35_LatFromYLngFromXOrError ==
    conversion.source # "none" =>
        LET x == conversion.x
            y == conversion.y
            bothConvert == Convertible(x) /\ Convertible(y)
            inRange == /\ from_f64(y).dec \in -90..90
                       /\ from_f64(x).dec \in -180..180
        IN  /\ \A r \in {conversion.location, conversion.waypoint} :
                  /\ r.ok <=> (bothConvert /\ inRange)
                  /\ r.ok => /\ r.variant = "LatLng"
                              /\ r.lat = from_f64(y).dec
                              /\ r.lng = from_f64(x).dec
                              /\ r.err = "-"
                  /\ ~r.ok => /\ r.variant = "-"
                               /\ r.err \in {"FloatToDecimalConversionError",
                                              "InvalidLatitude",
                                              "InvalidLongitude"}
                  /\ r.err = "FloatToDecimalConversionError" <=> ~bothConvert
            /\ conversion.location.ok = conversion.waypoint.ok
            /\ conversion.location.err = conversion.waypoint.err

\* a Coord whose x is a longitude but no latitude became a Waypoint
C35_Witness ==
    /\ conversion.source = "Coord"
    /\ conversion.x = F64(91, 1)
    /\ conversion.y = F64(-90, 0)
    /\ conversion.waypoint.ok
    /\ conversion.waypoint.lat = -90
    /\ conversion.waypoint.lng = 91
    /\ conversion.location.ok

====
